---- MODULE Spec2Model ----
(***************************************************************************)
(* Decision-record lifecycle of the banking agent backend.                 *)
(*                                                                         *)
(* Two deployments of the same application are modelled:                   *)
(*   - the JSON-file backend (src/unnamed/part_000), whose decision store  *)
(*     is the file decisions.json, read whole and written whole;           *)
(*   - the Supabase backend (src/agent.py), whose decision store is the    *)
(*     table loan_decisions.                                               *)
(* The LLM agent (crew.kickoff) is an external collaborator: its reply is  *)
(* an input of the handlers that call it.                                  *)
(***************************************************************************)
EXTENDS Integers, Sequences, FiniteSets, TLC

VARIABLES
    decisions_file,     \* contents of decisions.json (JSON backend)
    loan_decisions,     \* rows of the table loan_decisions (Supabase backend)
    customers,          \* rows of the table customers (Supabase backend)
    db,                 \* the other tables: credit_cards, loans, billing_cycles,
                        \* transactions, rules (Supabase backend)
    tokens,             \* _tokens: token -> its role and id (Supabase backend)
    sessions,           \* _sessions_in_memory: session id -> turns
    archive,            \* _sessions_history_in_memory: session id -> archived sessions
    ids,                \* number of record ids handed out (uuid4 / table key)
    CREW_AVAILABLE,     \* whether crewai could be imported
    resp,               \* the response of the last request
    pc,                 \* per worker thread: position inside record_decision
    obj,                \* per worker thread: the record being appended
    local               \* per worker thread: the list read by _load_decisions

vars == <<decisions_file, loan_decisions, customers, db, tokens, sessions, archive, ids,
          CREW_AVAILABLE, resp, pc, obj, local>>

(***************************************************************************)
(* Bounds of the model.                                                    *)
(***************************************************************************)
\* record_decision calls in one behaviour (each takes a fresh id)
MaxIds == 2
\* turns one chat session may hold
MaxTurns == 4
\* credit cards and loans one customer may hold
MaxCards == 2
MaxLoans == 2
\* rows the table billing_cycles may hold
MaxCycles == 3
\* transactions one bank statement may list
MaxTx == 2
\* rows the table rules may hold
MaxRules == 2
\* transactions of a customer besides the run of equal ones
MaxExtra == 2

(***************************************************************************)
(* Request inputs.                                                         *)
(***************************************************************************)
\* customers present in credits_loan.json
Customers == {"c1"}
\* customer ids a request may carry: a known one, an unknown one, none
CustomerIds == {"c1", "cX"}
NoValue == ""
ValidDecisions == {"APPROVE", "REVIEW", "REJECT"}
\* decision strings a payload or an agent reply may carry
DecisionInputs == ValidDecisions \cup {"HOLD"}
Reasons == {"r"}
SessionIds == {"s1"}
Threads == {1, 2}

NumRules == 11
ReviewThreshold == 8

NoRow == [id |-> 0, customer_id |-> NoValue, decision |-> NoValue,
          reason |-> NoValue, created_at |-> 0]

Range(s) == {s[i] : i \in DOMAIN s}

(***************************************************************************)
(* The decision mapping stated in the rules text given to the agent.       *)
(***************************************************************************)
DecisionOf(n) ==
    IF n = NumRules THEN "APPROVE"
    ELSE IF ReviewThreshold <= n /\ n < NumRules THEN "REVIEW"
    ELSE "REJECT"

(***************************************************************************)
(* JSON backend: file helpers.                                             *)
(* A file content is a JSON list of rows ("list"), a parseable JSON value  *)
(* that is not a list ("object"), text that does not parse ("garbage"), or *)
(* what open(path, "w") followed by an interrupted json.dump leaves        *)
(* ("truncated": empty, or a prefix of the new text, which does not        *)
(* parse).                                                                 *)
(***************************************************************************)
ListFile(rows) == [kind |-> "list", rows |-> rows]
ObjectFile == [kind |-> "object", rows |-> <<>>]
GarbageFile == [kind |-> "garbage", rows |-> <<>>]
TruncatedFile == [kind |-> "truncated", rows |-> <<>>]

\* a variant without the os.path.exists test and the try around json.load
read_json_file_uncaught(file) ==
    IF file.kind = "list" THEN [type |-> "list", rows |-> file.rows]
    ELSE IF file.kind = "object" THEN [type |-> "dict", rows |-> <<>>]
    ELSE [type |-> "raised", rows |-> <<>>]

\* the value _read_json_file returns: {} for a missing file and for content
\* json.load raises on, the parsed value otherwise
read_json_file(file) ==
    IF file.kind = "list" THEN [type |-> "list", rows |-> file.rows]
    ELSE [type |-> "dict", rows |-> <<>>]

\* a variant: the value read is returned without the isinstance check
load_decisions_unchecked(file) == read_json_file(file)

\* data if isinstance(data, list) else []; an exception of the read passes
\* through
load_decisions(file) ==
    LET data == read_json_file(file)
    IN IF data.type \in {"list", "raised"} THEN data
       ELSE [type |-> "list", rows |-> <<>>]

\* what the storage medium does to a write: nothing, or open(path, "w")
\* raises, or json.dump raises after open has truncated the file
Faults == {"none", "open_fails", "dump_fails"}

\* open(path, "w") truncates the file, json.dump then writes the new text
write_json_file(file, data, fault) ==
    CASE fault = "none" -> ListFile(data)
      [] fault = "open_fails" -> file
      [] OTHER -> TruncatedFile

\* a variant: the new record replaces the list instead of extending it
append_decision_overwrite(file, decision_obj, fault) ==
    [file |-> write_json_file(file, <<decision_obj>>, fault),
     raised |-> fault # "none"]

\* a variant that stamps the new decision on the records already stored
append_decision_restamp(file, decision_obj, fault) ==
    LET decisions == load_decisions(file)
        stamped == [i \in DOMAIN decisions.rows |->
                       [decisions.rows[i] EXCEPT !.decision = decision_obj.decision,
                                                 !.created_at = decision_obj.created_at]]
    IN [file |-> write_json_file(file, Append(stamped, decision_obj), fault),
        raised |-> fault # "none"]

\* decisions = _load_decisions(); decisions.append(obj); _write_json_file(...)
\* (append exists on a list only: on any other value the call raises)
append_decision(file, decision_obj, fault) ==
    LET decisions == load_decisions(file)
    IN IF decisions.type # "list"
       THEN [file |-> file, raised |-> TRUE]
       ELSE [file |-> write_json_file(file, Append(decisions.rows, decision_obj), fault),
             raised |-> fault # "none"]

\* list_decisions: filter by customer, sort by created_at descending
\* (Python's sorted is stable and reverse=True keeps the order of ties)
RECURSIVE SortDesc(_)
InsertDesc(row, sorted) ==
    LET k == CHOOSE i \in 1..(Len(sorted) + 1) :
                 /\ \A j \in 1..(i - 1) : sorted[j].created_at >= row.created_at
                 /\ (i <= Len(sorted) => sorted[i].created_at < row.created_at)
    IN SubSeq(sorted, 1, k - 1) \o <<row>> \o SubSeq(sorted, k, Len(sorted))
SortDesc(rows) ==
    IF rows = <<>> THEN <<>>
    ELSE InsertDesc(rows[Len(rows)], SortDesc(SubSeq(rows, 1, Len(rows) - 1)))

FilterCustomer(rows, customer_id) ==
    SelectSeq(rows, LAMBDA d : d.customer_id = customer_id)

\* seq[:limit]: the first limit items; a negative limit counts from the end
Slice(seq, limit) ==
    LET stop == IF limit >= 0
                THEN (IF limit < Len(seq) THEN limit ELSE Len(seq))
                ELSE (IF Len(seq) + limit > 0 THEN Len(seq) + limit ELSE 0)
    IN SubSeq(seq, 1, stop)

\* a variant that skips the customer filter
list_decisions_unfiltered(file, customer_id, limit) ==
    Slice(SortDesc(load_decisions(file).rows), limit)

list_decisions_json(file, customer_id, limit) ==
    LET all_dec == load_decisions(file).rows
        filtered == IF customer_id # NoValue
                    THEN FilterCustomer(all_dec, customer_id)
                    ELSE all_dec
        filtered_sorted == SortDesc(filtered)
    IN Slice(filtered_sorted, limit)
(***************************************************************************)
(* The agent's reply (str(crew.kickoff())), an input of the handlers:      *)
(* kickoff raises, or the text is not JSON, or it is JSON whose "decision" *)
(* and "reason" may be missing (NoValue).                                  *)
(***************************************************************************)
AgentReplies ==
    {[kind |-> "raises", decision |-> NoValue, reason |-> NoValue],
     [kind |-> "text", decision |-> NoValue, reason |-> NoValue],
     [kind |-> "json", decision |-> NoValue, reason |-> "r"],
     [kind |-> "json", decision |-> "APPROVE", reason |-> NoValue]}
    \cup [kind : {"json"}, decision : DecisionInputs, reason : Reasons]

\* parsed.get("decision") and parsed.get("reason")
HasDecisionShape(reply) ==
    reply.kind = "json" /\ reply.decision # NoValue /\ reply.reason # NoValue

\* the number of rules an evaluation found satisfied; no code reads it
RuleCounts == {0, 7, 8, 10, 11}

\* The response of a request, with what the request did to the store:
\* op: the handler; status: the HTTP status; body: which return statement;
\* saved: the row returned; write: "none", or how record_decision ended
\* ("ok", "failed"); n: the rule count of the evaluation whose decision was
\* written; found: the kind of content the store held when it was read;
\* fault: what the storage medium did to the write; arg: the id or the
\* limit the request carried; rows: the rows a listing returned; summary:
\* the customer summary a chat request built (<<>> when it built none);
\* logged: the handler printed a traceback (print(tb), the only output the
\* JSON backend writes besides its responses; kept for that backend only)
Response(op, status, body, customer_id, saved, write, n) ==
    [op |-> op, status |-> status, body |-> body, customer_id |-> customer_id,
     saved |-> saved, write |-> write, n |-> n, found |-> "none", fault |-> "none",
     arg |-> 0, rows |-> <<>>, summary |-> <<>>, logged |-> FALSE,
     header |-> NoValue, ends |-> FALSE]

Logged(response) == [response EXCEPT !.logged = TRUE]

\* the response to a request of the admin, with the Authorization header
\* the request carried
ResponseTo(header, op, status, body, customer_id, saved, write, n) ==
    [Response(op, status, body, customer_id, saved, write, n) EXCEPT !.header = header]

\* the response to a POST /chat, with the header and the end_session flag
\* the request carried
ChatResponse(header, end_session, status, body, customer_id, saved, write, n) ==
    [ResponseTo(header, "chat", status, body, customer_id, saved, write, n)
        EXCEPT !.ends = end_session]

Asked(response, arg) == [response EXCEPT !.arg = arg]

Listed(response, limit, rows) == [response EXCEPT !.arg = limit, !.rows = rows]

Stored(response, found, fault) ==
    [response EXCEPT !.found = found, !.fault = fault]

NoResponse == Response("none", 0, "none", NoValue, NoRow, "none", 0)

(***************************************************************************)
(* JSON backend: record_decision and the handlers that call it.            *)
(***************************************************************************)
DecisionRow(id, customer_id, decision, reason, created_at) ==
    [id |-> id, customer_id |-> customer_id, decision |-> decision,
     reason |-> reason, created_at |-> created_at]

\* the file after record_decision, the row it returns, whether it raised
record_decision_json(file, id, customer_id, decision, reason, created_at, outcome) ==
    LET o == DecisionRow(id, customer_id, decision, reason, created_at)
        a == append_decision(file, o, outcome)
    IN [file |-> a.file, row |-> o, raised |-> a.raised]

\* uuid.uuid4(): an id no earlier call was given
uuid4 == ids + 1

\* datetime.utcnow(): clock readings follow the order of the calls
utcnow == ids + 1

get_customer_json(customer_id) == customer_id \in Customers

JsonFrame == UNCHANGED <<loan_decisions, customers, db, tokens, archive, CREW_AVAILABLE, pc, obj, local>>

\* a variant that asks for the customer_id alone
Missing_customer_only(cust_id, decision) == cust_id = NoValue

\* not cust_id or not decision
Missing(cust_id, decision) == cust_id = NoValue \/ decision = NoValue

\* POST /update-decisions
api_update_decision_json(cust_id, decision, reason) ==
    /\ JsonFrame
    /\ UNCHANGED sessions
    /\ \/ /\ Missing(cust_id, decision)
          /\ resp' = Response("update_decisions", 400, "error", cust_id, NoRow, "none", 0)
          /\ UNCHANGED <<decisions_file, ids>>
       \/ /\ ~Missing(cust_id, decision)
          /\ ids < MaxIds
          /\ \E outcome \in Faults :
               LET r == record_decision_json(decisions_file, uuid4, cust_id,
                                             decision, reason, utcnow, outcome)
               IN /\ decisions_file' = r.file
                  /\ ids' = ids + 1
                  /\ resp' = Stored(IF r.raised
                                    THEN Response("update_decisions", 500, "error",
                                                  cust_id, NoRow, "failed", 0)
                                    ELSE Response("update_decisions", 200, "decision",
                                                  cust_id, r.row, "ok", 0),
                                    decisions_file.kind, outcome)

\* POST /admin/customers/{customer_id}/run-agent
admin_run_agent_for_customer_json(customer_id, reply) ==
    /\ JsonFrame
    /\ UNCHANGED sessions
    /\ \/ /\ ~(CREW_AVAILABLE /\ get_customer_json(customer_id) /\ HasDecisionShape(reply))
          /\ resp' = IF ~CREW_AVAILABLE
                     THEN Response("run_agent", 501, "error", customer_id, NoRow, "none", 0)
                     ELSE IF ~get_customer_json(customer_id)
                     THEN Response("run_agent", 404, "error", customer_id, NoRow, "none", 0)
                     ELSE IF reply.kind = "raises"
                     THEN Logged(Response("run_agent", 500, "error", customer_id, NoRow,
                                          "none", 0))
                     ELSE IF reply.kind = "text"
                     THEN Response("run_agent", 200, "note_not_json", customer_id,
                                   NoRow, "none", 0)
                     ELSE Response("run_agent", 200, "note_shape", customer_id,
                                   NoRow, "none", 0)
          /\ UNCHANGED <<decisions_file, ids>>
       \/ /\ CREW_AVAILABLE /\ get_customer_json(customer_id) /\ HasDecisionShape(reply)
          /\ ids < MaxIds
          /\ \E n \in RuleCounts, outcome \in Faults :
               LET r == record_decision_json(decisions_file, uuid4, customer_id,
                                             reply.decision, reply.reason,
                                             utcnow, outcome)
               IN /\ decisions_file' = r.file
                  /\ ids' = ids + 1
                  /\ resp' = Stored(IF r.raised
                                    THEN Logged(Response("run_agent", 500, "error",
                                                         customer_id, NoRow, "failed", n))
                                    ELSE Response("run_agent", 200, "saved",
                                                  customer_id, r.row, "ok", n),
                                    decisions_file.kind, outcome)

(***************************************************************************)
(* Customer data and the signals api_chat derives from them.               *)
(* A field a record may lack is a sequence: <<>> when the key is missing   *)
(* or null, <<v>> when it holds v.  In the specifications of this section  *)
(* a row of customers carries the customer's credit cards, loans and       *)
(* transactions (credits_loan.json and bank_statements.json, or the tables *)
(* credit_cards, loans and transactions filtered by customer_id).          *)
(***************************************************************************)
None == <<>>

\* x or 0
OrZero(x) == IF x = None THEN 0 ELSE x[1]

\* the transactions api_chat asks for: get_transactions(customer_id, limit=50)
TxWindow == 50

\* str(t.get("type", "")).lower()
Lower(type) == IF type = "CREDIT" THEN "credit" ELSE type

RECURSIVE SumOf(_, _)
\* sum((c.get(key) or 0) for c in cards), key being credit_limit or current_balance
SumOf(cards, key) ==
    IF cards = <<>> THEN 0
    ELSE OrZero(IF key = "credit_limit" THEN Head(cards).credit_limit
                ELSE Head(cards).current_balance) + SumOf(Tail(cards), key)

RECURSIVE MaxAmount(_)
\* max((t.get("amount") or 0) for t in credits), credits not empty
MaxAmount(credits) ==
    IF Len(credits) = 1 THEN OrZero(credits[1].amount)
    ELSE LET rest == MaxAmount(Tail(credits))
             first == OrZero(credits[1].amount)
         IN IF first >= rest THEN first ELSE rest

RECURSIVE SortByDateDesc(_)
\* sorted(txs, key=date, reverse=True): stable, so the transactions of the
\* latest date come first in their stored order, then the sorted rest
SortByDateDesc(txs) ==
    IF txs = <<>> THEN <<>>
    ELSE LET latest == CHOOSE d \in {txs[i].date : i \in DOMAIN txs} :
                          \A i \in DOMAIN txs : txs[i].date <= d
         IN SelectSeq(txs, LAMBDA t : t.date = latest)
            \o SortByDateDesc(SelectSeq(txs, LAMBDA t : t.date # latest))

\* the entries of customer_id, in stored order
EntriesOf(customer_id) == SelectSeq(customers, LAMBDA e : e.customer_id = customer_id)

\* JSON backend: the first entry of bank_statements.json with that
\* customer_id gives the transactions; none gives []
get_transactions_json(customer_id, limit) ==
    IF EntriesOf(customer_id) = <<>> THEN <<>>
    ELSE Slice(SortByDateDesc(EntriesOf(customer_id)[1].transactions), limit)

get_credit_cards_json(customer_id) ==
    IF EntriesOf(customer_id) = <<>> THEN <<>>
    ELSE EntriesOf(customer_id)[1].credit_cards

get_loans_json(customer_id) ==
    IF EntriesOf(customer_id) = <<>> THEN <<>>
    ELSE EntriesOf(customer_id)[1].loans

RECURSIVE Flatten(_, _)
\* the rows of a table (credit_cards, loans or transactions) with that customer_id
Flatten(entries, table) ==
    IF entries = <<>> THEN <<>>
    ELSE (CASE table = "credit_cards" -> Head(entries).credit_cards
            [] table = "loans" -> Head(entries).loans
            [] OTHER -> Head(entries).transactions) \o Flatten(Tail(entries), table)

RECURSIVE Reversed(_)
Reversed(seq) == IF seq = <<>> THEN <<>> ELSE Append(Reversed(Tail(seq)), Head(seq))

\* rows the database may return for equal dates: it promises no order among
\* them, so the stored order and its reverse both stand
TieOrders == {"stored", "reversed"}

\* Supabase backend: safe_select("transactions", filters={"customer_id": ..},
\* limit=limit, order={"date": {"ascending": False}}); safe_select applies
\* the limit under `if limit:`, so limit 0 sets none
get_transactions_sb(customer_id, limit, tie) ==
    LET rows == Flatten(EntriesOf(customer_id), "transactions")
        ordered == SortByDateDesc(IF tie = "stored" THEN rows ELSE Reversed(rows))
    IN IF limit # 0 THEN Slice(ordered, limit) ELSE ordered

get_credit_cards_sb(customer_id) == Flatten(EntriesOf(customer_id), "credit_cards")

get_loans_sb(customer_id) == Flatten(EntriesOf(customer_id), "loans")

\* total_balance / total_credit_limit * 100, then round(.., 2): the
\* percentage in hundredths, to the nearest; dividing by 0 raises
Percent(total_balance, total_credit_limit) ==
    IF total_credit_limit = 0 THEN [raised |-> TRUE, hundredths |-> 0]
    ELSE [raised |-> FALSE,
          hundredths |-> (2 * 10000 * total_balance + total_credit_limit)
                         \div (2 * total_credit_limit)]

\* a variant that divides whatever the total limit is
credit_utilization_unguarded(total_balance, total_credit_limit) ==
    <<Percent(total_balance, total_credit_limit)>>

\* (total_balance / total_credit_limit * 100) if total_credit_limit else None
credit_utilization(total_balance, total_credit_limit) ==
    IF total_credit_limit # 0 THEN <<Percent(total_balance, total_credit_limit)>>
    ELSE None

\* a variant that takes the largest amount of any transaction
income_estimate_any_type(txs) ==
    IF txs # <<>> THEN <<MaxAmount(txs)>> ELSE None

\* monthly_income_estimate: max of (amount or 0) over the credits, None without one
income_estimate(txs) ==
    LET credits == SelectSeq(txs, LAMBDA t : Lower(t.type) = "credit")
    IN IF credits # <<>> THEN <<MaxAmount(credits)>> ELSE None

\* _dt.utcnow() when a summary is built, in parts of a day
Today == 20

\* the parts a day is counted in: timedelta.days drops what is short of a day
DayParts == 2

\* a creation date that reads as a date without a UTC offset
OpenedAt(at) == <<[form |-> "naive", at |-> at]>>

\* account_age_days: None when account_creation_date is missing or empty,
\* when fromisoformat raises on it, and when it parses to a datetime with a
\* UTC offset, which the naive utcnow() cannot be subtracted from (TypeError,
\* caught like the parse error); else (utcnow() - created).days
account_age_days(acd, now) ==
    IF acd = None THEN None
    ELSE IF acd[1].form = "unparsable" THEN None
    ELSE IF acd[1].form = "aware" THEN None
    ELSE <<(now - acd[1].at) \div DayParts>>

\* the summary api_chat builds inside its try block; raised: an exception
\* left the block and the context says "unavailable" instead; cause: the
\* first statement that raised (a select, the division, cust.get on the
\* None that get_customer returned)
Summary(customer_id, txs, cards, loans, active_loans_count, age, failed) ==
    LET credit_util == credit_utilization(SumOf(cards, "current_balance"),
                                          SumOf(cards, "credit_limit"))
        cause == IF failed THEN "select"
                 ELSE IF credit_util # None /\ credit_util[1].raised THEN "division"
                 ELSE IF EntriesOf(customer_id) = <<>> THEN "no_customer"
                 ELSE "none"
        raised == cause # "none"
    IN [raised |-> raised,
        cause |-> cause,
        account_age_days |-> IF raised THEN None ELSE age,
        customer_id |-> customer_id,
        txs |-> txs,
        monthly_income_estimate |-> IF raised THEN None ELSE income_estimate(txs),
        credit_utilization_pct |->
            IF raised \/ credit_util = None THEN None ELSE <<credit_util[1].hundredths>>,
        recent_tx_count |-> IF raised THEN 0 ELSE Len(txs),
        active_loans_count |-> IF raised THEN 0 ELSE active_loans_count]

\* JSON backend: "active_loans_count": len(loans); no account_age_days
customer_summary_json(customer_id) ==
    Summary(customer_id, get_transactions_json(customer_id, TxWindow),
            get_credit_cards_json(customer_id), get_loans_json(customer_id),
            Len(get_loans_json(customer_id)), None, FALSE)

\* Supabase backend: len([l for l in loans if
\* (l.get("outstanding_amount") or l.get("outstanding") or 0) > 0])
customer_summary_sb(customer_id, tie, select_fault) ==
    LET loans == get_loans_sb(customer_id)
        Owed(l) == IF OrZero(l.outstanding_amount) # 0 THEN OrZero(l.outstanding_amount)
                   ELSE OrZero(l.outstanding)
    IN Summary(customer_id, get_transactions_sb(customer_id, TxWindow, tie),
               get_credit_cards_sb(customer_id), loans,
               Len(SelectSeq(loans, LAMBDA l : Owed(l) > 0)),
               IF EntriesOf(customer_id) = <<>> THEN None
               ELSE account_age_days(EntriesOf(customer_id)[1].account_creation_date,
                                     Today),
               select_fault # "none")

\* the response of a chat request that built (or failed to build) a summary
Summarised(response, customer_id, summary) ==
    IF customer_id = NoValue THEN response
    ELSE [response EXCEPT !.summary = <<summary>>]

\* req.session_id or str(uuid.uuid4()): a fresh id names no session yet
SessionOf(session_id) ==
    IF session_id # NoValue THEN {session_id}
    ELSE {s \in SessionIds : sessions[s] = <<>> /\ archive[s] = <<>>}

\* a variant that appends the system turn after the assistant's
Turns_system_last(fetched) ==
    <<"user", "assistant">> \o (IF fetched THEN <<"system">> ELSE <<>>)

\* the turns one POST /chat appends: the user's, the system's when the
\* customer summary was fetched, the assistant's
Turns(fetched) ==
    <<"user">> \o (IF fetched THEN <<"system">> ELSE <<>>) \o <<"assistant">>

\* POST /chat
api_chat_json(customer_id, session_id, reply) ==
    \E sid \in SessionOf(session_id) :
    LET fetched == customer_id # NoValue /\ get_customer_json(customer_id)
        turns == Turns(fetched)
        stores == CREW_AVAILABLE /\ HasDecisionShape(reply) /\ customer_id # NoValue
        body == IF ~CREW_AVAILABLE THEN "fallback"
                ELSE IF reply.kind = "raises" THEN "agent_error" ELSE "reply"
    IN /\ JsonFrame
       /\ Len(sessions[sid]) + Len(turns) <= MaxTurns
       /\ sessions' = [sessions EXCEPT ![sid] = @ \o turns]
       /\ \/ /\ ~stores
             /\ resp' = Summarised(IF body = "agent_error"
                                   THEN Logged(Response("chat", 200, body, customer_id,
                                                        NoRow, "none", 0))
                                   ELSE Response("chat", 200, body, customer_id, NoRow,
                                                 "none", 0),
                                customer_id, customer_summary_json(customer_id))
             /\ UNCHANGED <<decisions_file, ids>>
          \/ /\ stores
             /\ ids < MaxIds
             /\ \E outcome \in Faults :
                  LET r == record_decision_json(decisions_file, uuid4, customer_id,
                                                reply.decision, reply.reason,
                                                utcnow, outcome)
                  IN /\ decisions_file' = r.file
                     /\ ids' = ids + 1
                     /\ resp' = Summarised(
                                  Stored(Response("chat", 200, body, customer_id, NoRow,
                                                  IF r.raised THEN "failed" ELSE "ok", 0),
                                         decisions_file.kind, outcome),
                                  customer_id, customer_summary_json(customer_id))

(***************************************************************************)
(* JSON backend, sequential requests.                                      *)
(***************************************************************************)
InitFiles == {ListFile(<<>>), ObjectFile, GarbageFile}

\* the customers table after the loader has run
InitCustomers ==
    <<[customer_id |-> "c1", account_creation_date |-> OpenedAt(0),
       credit_cards |-> <<>>, loans |-> <<>>, transactions |-> <<>>]>>

\* _tokens after POST /auth has issued an admin and a customer token
InitTokens ==
    [t \in {"tA", "tC"} |->
        IF t = "tA" THEN [role |-> "admin", id |-> "admin@bank"]
        ELSE [role |-> "customer", id |-> "c1"]]

\* everything but the customer data
InitState ==
    /\ loan_decisions = <<>>
    /\ db = [credit_cards |-> <<>>, loans |-> <<>>, billing_cycles |-> <<>>,
             transactions |-> <<>>, rules |-> <<>>]
    /\ tokens = InitTokens
    /\ sessions = [s \in SessionIds |-> <<>>]
    /\ archive = [s \in SessionIds |-> <<>>]
    /\ ids = 0
    /\ CREW_AVAILABLE \in BOOLEAN
    /\ resp = NoResponse
    /\ pc = [t \in Threads |-> "idle"]
    /\ obj = [t \in Threads |-> NoRow]
    /\ local = [t \in Threads |-> <<>>]

InitCommon ==
    /\ InitState
    /\ customers = InitCustomers

Init ==
    /\ InitCommon
    /\ decisions_file \in InitFiles

Next ==
    \/ \E c \in CustomerIds \cup {NoValue}, d \in DecisionInputs \cup {NoValue},
          r \in Reasons :
          api_update_decision_json(c, d, r)
    \/ \E c \in CustomerIds, a \in AgentReplies :
          admin_run_agent_for_customer_json(c, a)
    \/ \E c \in CustomerIds \cup {NoValue}, s \in SessionIds \cup {NoValue},
          a \in AgentReplies :
          api_chat_json(c, s, a)

Spec == Init /\ [][Next]_vars
(***************************************************************************)
(* Supabase backend: token check, table helpers, the handlers.             *)
(* The table assigns the key id of an inserted row; an insert or update    *)
(* that raises leaves the table as it was.                                 *)
(***************************************************************************)
\* Authorization headers a request may carry: none, issued ones, a stranger
Authorizations == {NoValue, "tA", "tC", "tX"}

NoToken == [role |-> "none", id |-> NoValue]

\* _tokens.get(token), None without a header
validate_token(token_header) ==
    IF token_header = NoValue THEN NoToken
    ELSE IF token_header \in DOMAIN tokens THEN tokens[token_header]
    ELSE NoToken

\* a variant that admits every token of _tokens, whatever its role
IsAdmin_any_role(token_header) == validate_token(token_header).role # "none"

\* token_meta is None or token_meta.get("role") != "admin"
IsAdmin(token_header) == validate_token(token_header).role = "admin"

\* safe_select("customers", filters={"customer_id": customer_id}, limit=1)
get_customer_sb(customer_id) ==
    \E i \in DOMAIN customers : customers[i].customer_id = customer_id

\* safe_insert("loan_decisions", payload); rows[0]
record_decision_sb(table, id, customer_id, decision, reason, created_at, fault) ==
    LET row == DecisionRow(id, customer_id, decision, reason, created_at)
    IN IF fault = "write_fails"
       THEN [table |-> table, row |-> NoRow, raised |-> TRUE]
       ELSE [table |-> Append(table, row), row |-> row, raised |-> FALSE]

\* a variant that inserts a row under the id where the table updates in place
update_decision_row_insert(table, decision_id, customer_id, decision, reason, fault) ==
    LET row == DecisionRow(decision_id, customer_id, decision, reason, 0)
    IN IF fault = "write_fails"
       THEN [table |-> table, row |-> NoRow, raised |-> TRUE]
       ELSE [table |-> Append(table, row), row |-> row, raised |-> FALSE]

\* a variant that matches the rows by customer_id where the table matches by id
update_decision_row_by_customer(table, decision_id, customer_id, decision, reason, fault) ==
    LET updated == [i \in DOMAIN table |->
                       IF table[i].customer_id = customer_id
                       THEN [table[i] EXCEPT !.decision = decision, !.reason = reason]
                       ELSE table[i]]
        hit == SelectSeq(updated, LAMBDA d : d.customer_id = customer_id)
    IN IF fault = "write_fails"
       THEN [table |-> table, row |-> NoRow, raised |-> TRUE]
       ELSE [table |-> updated,
             row |-> IF hit = <<>> THEN NoRow ELSE hit[1],
             raised |-> FALSE]

\* safe_update("loan_decisions", payload, "id", decision_id); rows[0] or {}
update_decision_row(table, decision_id, customer_id, decision, reason, fault) ==
    LET updated == [i \in DOMAIN table |->
                       IF table[i].id = decision_id
                       THEN [table[i] EXCEPT !.customer_id = customer_id,
                                             !.decision = decision,
                                             !.reason = reason]
                       ELSE table[i]]
        hit == SelectSeq(updated, LAMBDA d : d.id = decision_id)
    IN IF fault = "write_fails"
       THEN [table |-> table, row |-> NoRow, raised |-> TRUE]
       ELSE [table |-> updated,
             row |-> IF hit = <<>> THEN NoRow ELSE hit[1],
             raised |-> FALSE]

SbFrame == UNCHANGED <<decisions_file, customers, db, tokens, CREW_AVAILABLE, pc, obj, local>>

\* ids a payload may name: none (0), a row's, one no row has
DecisionIds == 0..MaxIds

\* POST /update-decisions
api_update_decision_sb(authorization, d_id, cust_id, decision, reason) ==
    /\ SbFrame
    /\ UNCHANGED <<sessions, archive>>
    /\ \/ /\ ~IsAdmin(authorization)
          /\ resp' = ResponseTo(authorization, "update_decisions", 403, "error", cust_id, NoRow, "none", 0)
          /\ UNCHANGED <<loan_decisions, ids>>
       \/ /\ IsAdmin(authorization)
          /\ Missing(cust_id, decision)
          /\ resp' = ResponseTo(authorization, "update_decisions", 400, "error", cust_id, NoRow, "none", 0)
          /\ UNCHANGED <<loan_decisions, ids>>
       \/ /\ IsAdmin(authorization)
          /\ ~Missing(cust_id, decision)
          /\ d_id # 0
          /\ \E fault \in {"none", "write_fails"} :
               LET u == update_decision_row(loan_decisions, d_id, cust_id,
                                            decision, reason, fault)
               IN /\ loan_decisions' = u.table
                  /\ resp' = Asked(Stored(IF u.raised
                                    THEN ResponseTo(authorization, "update_decisions", 500, "error",
                                                  cust_id, NoRow, "failed", 0)
                                    ELSE ResponseTo(authorization, "update_decisions", 200, "updated",
                                                  cust_id, u.row, "ok", 0),
                                    "table", fault), d_id)
          /\ UNCHANGED ids
       \/ /\ IsAdmin(authorization)
          /\ ~Missing(cust_id, decision)
          /\ d_id = 0
          /\ ids < MaxIds
          /\ \E fault \in {"none", "write_fails"} :
               LET r == record_decision_sb(loan_decisions, ids + 1, cust_id,
                                           decision, reason, utcnow, fault)
               IN /\ loan_decisions' = r.table
                  /\ ids' = ids + 1
                  /\ resp' = Asked(Stored(IF r.raised
                                    THEN ResponseTo(authorization, "update_decisions", 500, "error",
                                                  cust_id, NoRow, "failed", 0)
                                    ELSE ResponseTo(authorization, "update_decisions", 200, "decision",
                                                  cust_id, r.row, "ok", 0),
                                    "table", fault), d_id)

\* POST /admin/customers/{customer_id}/run-agent
admin_run_agent_for_customer_sb(authorization, customer_id, reply, select_fault) ==
    LET evaluates == /\ IsAdmin(authorization) /\ CREW_AVAILABLE
                     /\ select_fault = "none" /\ get_customer_sb(customer_id)
                     /\ HasDecisionShape(reply)
    IN
    /\ SbFrame
    /\ UNCHANGED <<sessions, archive>>
    /\ \/ /\ ~evaluates
          /\ resp' = IF ~IsAdmin(authorization)
                     THEN ResponseTo(authorization, "run_agent", 403, "error", customer_id, NoRow, "none", 0)
                     ELSE IF ~CREW_AVAILABLE
                     THEN ResponseTo(authorization, "run_agent", 501, "error", customer_id, NoRow, "none", 0)
                     ELSE IF select_fault # "none"
                     THEN ResponseTo(authorization, "run_agent", 500, "error", customer_id, NoRow, "none", 0)
                     ELSE IF ~get_customer_sb(customer_id)
                     THEN ResponseTo(authorization, "run_agent", 404, "error", customer_id, NoRow, "none", 0)
                     ELSE IF reply.kind = "raises"
                     THEN ResponseTo(authorization, "run_agent", 500, "error", customer_id, NoRow, "none", 0)
                     ELSE IF reply.kind = "text"
                     THEN ResponseTo(authorization, "run_agent", 200, "note_not_json", customer_id,
                                   NoRow, "none", 0)
                     ELSE ResponseTo(authorization, "run_agent", 200, "note_shape", customer_id,
                                   NoRow, "none", 0)
          /\ UNCHANGED <<loan_decisions, ids>>
       \/ /\ evaluates
          /\ ids < MaxIds
          /\ \E n \in RuleCounts, fault \in {"none", "write_fails"} :
               LET r == record_decision_sb(loan_decisions, ids + 1, customer_id,
                                           reply.decision, reply.reason, utcnow, fault)
               IN /\ loan_decisions' = r.table
                  /\ ids' = ids + 1
                  /\ resp' = Stored(IF r.raised
                                    THEN ResponseTo(authorization, "run_agent", 200, "save_error",
                                                  customer_id, NoRow, "failed", n)
                                    ELSE ResponseTo(authorization, "run_agent", 200, "saved",
                                                  customer_id, r.row, "ok", n),
                                    "table", fault)

\* turns a session holds, archived ones included
TurnsHeld(sid) ==
    LET RECURSIVE Sum(_)
        Sum(hist) == IF hist = <<>> THEN 0 ELSE Len(Head(hist)) + Sum(Tail(hist))
    IN Len(sessions[sid]) + Sum(archive[sid])

\* a variant that appends the session to the history twice
Archived_twice(history, sid, session) ==
    [history EXCEPT ![sid] = Append(Append(@, session), session)]

\* _sessions_history_in_memory.setdefault(session_id, []).append(session)
Archived(history, sid, session) == [history EXCEPT ![sid] = Append(@, session)]

\* session_id in _sessions_in_memory; a session is created with its first turn
Active(sid) == sid \in DOMAIN sessions /\ sessions[sid] # <<>>

\* POST /sessions/{session_id}/end
api_end_session(authorization, session_id) ==
    /\ SbFrame
    /\ UNCHANGED <<loan_decisions, ids>>
    /\ IF validate_token(authorization) = NoToken
       THEN /\ resp' = ResponseTo(authorization, "end_session", 403, "error", NoValue,
                                  NoRow, "none", 0)
            /\ UNCHANGED <<sessions, archive>>
       ELSE IF ~Active(session_id)
       THEN /\ resp' = ResponseTo(authorization, "end_session", 404, "error", NoValue,
                                  NoRow, "none", 0)
            /\ UNCHANGED <<sessions, archive>>
       ELSE /\ sessions' = [sessions EXCEPT ![session_id] = <<>>]
            /\ archive' = Archived(archive, session_id, sessions[session_id])
            /\ resp' = ResponseTo(authorization, "end_session", 200, "archived", NoValue,
                                  NoRow, "none", 0)

\* POST /chat
api_chat_sb(authorization, req_customer_id, session_id, end_session, reply, select_fault, tie) ==
    LET token_meta == validate_token(authorization)
        customer_id == IF token_meta.role = "customer" /\ req_customer_id = NoValue
                       THEN token_meta.id ELSE req_customer_id
    IN
    \/ /\ token_meta = NoToken
       /\ resp' = ChatResponse(authorization, end_session, 403, "error", req_customer_id, NoRow, "none", 0)
       /\ UNCHANGED <<loan_decisions, ids, sessions, archive>>
       /\ SbFrame
    \/ /\ token_meta # NoToken
       /\ \E sid \in SessionOf(session_id) :
          LET fetched == /\ customer_id # NoValue /\ select_fault = "none"
                         /\ get_customer_sb(customer_id)
              turns == Turns(fetched)
              stores == CREW_AVAILABLE /\ HasDecisionShape(reply) /\ customer_id # NoValue
              body == IF ~CREW_AVAILABLE THEN "fallback"
                      ELSE IF reply.kind = "raises" THEN "agent_error" ELSE "reply"
              session == sessions[sid] \o turns
              summary == customer_summary_sb(customer_id, tie, select_fault)
          IN /\ SbFrame
             /\ TurnsHeld(sid) + Len(turns) <= MaxTurns
             /\ IF end_session
                THEN /\ sessions' = [sessions EXCEPT ![sid] = <<>>]
                     /\ archive' = Archived(archive, sid, session)
                ELSE /\ sessions' = [sessions EXCEPT ![sid] = session]
                     /\ UNCHANGED archive
             /\ \/ /\ ~stores
                   /\ resp' = Summarised(ChatResponse(authorization, end_session, 200, body, customer_id, NoRow,
                                               "none", 0),
                                      customer_id, summary)
                   /\ UNCHANGED <<loan_decisions, ids>>
                \/ /\ stores
                   /\ ids < MaxIds
                   /\ \E fault \in {"none", "write_fails"} :
                        LET r == record_decision_sb(loan_decisions, ids + 1, customer_id,
                                                    reply.decision, reply.reason,
                                                    utcnow, fault)
                        IN /\ loan_decisions' = r.table
                           /\ ids' = ids + 1
                           /\ resp' = Summarised(
                                        Stored(ChatResponse(authorization, end_session, 200, body, customer_id,
                                                        NoRow,
                                                        IF r.raised THEN "failed" ELSE "ok",
                                                        0),
                                               "table", fault),
                                        customer_id, summary)

InitSb ==
    /\ InitCommon
    /\ decisions_file = ListFile(<<>>)

\* The decision store's requests; POST /chat is taken under SpecChat.  A
\* request the token check rejects is read no further, so one body stands
\* for every body sent under that header.
UpdateDecisionsRequest ==
    \E h \in Authorizations, i \in DecisionIds, c \in CustomerIds \cup {NoValue},
       d \in DecisionInputs \cup {NoValue}, r \in Reasons :
       /\ IsAdmin(h) \/ <<i, c, d>> = <<0, "c1", "APPROVE">>
       /\ api_update_decision_sb(h, i, c, d, r)

RunAgentRequest ==
    \E h \in Authorizations, c \in CustomerIds, a \in AgentReplies,
       f \in {"none", "select_fails"} :
       /\ IsAdmin(h) \/ (c = "c1" /\ a.kind = "text" /\ f = "none")
       /\ admin_run_agent_for_customer_sb(h, c, a, f)

NextSb ==
    \/ UpdateDecisionsRequest
    \/ RunAgentRequest

SpecSb == InitSb /\ [][NextSb]_vars

\* POST /chat alone: the session bookkeeping and the decision it may store
NextChat ==
    \E h \in Authorizations, c \in CustomerIds \cup {NoValue},
       s \in SessionIds \cup {NoValue}, e \in BOOLEAN, a \in AgentReplies,
       f \in {"none", "select_fails"}, tie \in TieOrders :
       api_chat_sb(h, c, s, e, a, f, tie)

SpecChat == InitSb /\ [][NextChat]_vars

\* session ids a request to end a session may name: a session's, a stranger's
EndIds == SessionIds \cup {"sX"}

\* POST /chat and POST /sessions/{session_id}/end
NextSessions ==
    \/ \E h \in Authorizations, c \in {"c1", NoValue}, s \in SessionIds \cup {NoValue},
          e \in BOOLEAN, a \in AgentReplies :
          /\ validate_token(h) # NoToken \/ <<c, e, a.kind>> = <<"c1", FALSE, "text">>
          /\ api_chat_sb(h, c, s, e, a, "none", "stored")
    \/ \E h \in Authorizations, s \in EndIds : api_end_session(h, s)

SpecSessions == InitSb /\ [][NextSessions]_vars

\* an agent that raises, one that answers in prose, one that decides
ChatReplies ==
    {a \in AgentReplies : a.kind = "json" => a.decision = "APPROVE" /\ a.reason = "r"}

\* POST /chat of both backends
NextTurns ==
    \/ \E c \in {"c1", NoValue}, s \in SessionIds \cup {NoValue}, a \in ChatReplies :
          api_chat_json(c, s, a)
    \/ \E h \in Authorizations, c \in {"c1", NoValue}, s \in SessionIds \cup {NoValue},
          e \in BOOLEAN, a \in ChatReplies, f \in {"none", "select_fails"} :
          /\ validate_token(h) # NoToken \/ <<c, e, a.kind, f>> = <<"c1", FALSE, "text", "none">>
          /\ api_chat_sb(h, c, s, e, a, f, "stored")

SpecTurns == InitSb /\ [][NextTurns]_vars


\* POST /update-decisions alone: every record is written by this handler
NextOverride == UpdateDecisionsRequest

SpecOverride == InitSb /\ [][NextOverride]_vars

(***************************************************************************)
(* Reading the decision store: GET /decisions of both backends, next to    *)
(* the POST /update-decisions requests that fill the stores.               *)
(***************************************************************************)
\* decisions.json does not exist: os.path.exists(path) is false
MissingFile == [kind |-> "missing", rows |-> <<>>]

\* limits a query string may carry
Limits == {-1, 0, 1, 2, 100}
\* the limits sent to the table; what PostgREST answers to a negative limit
\* is not in the sources
LimitsSb == {0, 1, 2, 100}

\* GET /decisions (JSON backend)
api_get_decisions_json(customer_id, limit) ==
    /\ JsonFrame
    /\ UNCHANGED <<sessions, decisions_file, ids>>
    /\ resp' = IF load_decisions(decisions_file).type = "raised"
               THEN Stored(Asked(Response("get_decisions", 500, "error", customer_id,
                                          NoRow, "none", 0), limit),
                           decisions_file.kind, "none")
               ELSE Listed(Stored(Response("get_decisions", 200, "decisions",
                                           customer_id, NoRow, "none", 0),
                                  decisions_file.kind, "none"),
                           limit,
                           list_decisions_json(decisions_file, customer_id, limit))

\* safe_select("loan_decisions", "*", filters, limit, order by created_at
\* descending): q.eq when customer_id is given, q.limit when limit is truthy
list_decisions_sb(table, customer_id, limit) ==
    LET filtered == IF customer_id # NoValue
                    THEN FilterCustomer(table, customer_id)
                    ELSE table
        ordered == SortDesc(filtered)
    IN IF limit # 0
       THEN SubSeq(ordered, 1, IF limit < Len(ordered) THEN limit ELSE Len(ordered))
       ELSE ordered

\* GET /decisions (Supabase backend)
api_get_decisions_sb(authorization, customer_id, limit, select_fault) ==
    /\ SbFrame
    /\ UNCHANGED <<sessions, archive, loan_decisions, ids>>
    /\ resp' =
         IF validate_token(authorization) = NoToken
         THEN Response("get_decisions", 403, "error", customer_id, NoRow, "none", 0)
         ELSE IF select_fault # "none"
         THEN Stored(Asked(Response("get_decisions", 500, "error", customer_id,
                                    NoRow, "none", 0), limit),
                     "table", select_fault)
         ELSE Listed(Stored(Response("get_decisions", 200, "decisions", customer_id,
                                     NoRow, "none", 0),
                            "table", "none"),
                     limit, list_decisions_sb(loan_decisions, customer_id, limit))

InitList ==
    /\ InitCommon
    /\ decisions_file \in InitFiles \cup {MissingFile}

NextList ==
    \/ \E c \in CustomerIds \cup {NoValue}, d \in DecisionInputs \cup {NoValue},
          r \in Reasons :
          api_update_decision_json(c, d, r)
    \/ \E c \in CustomerIds \cup {NoValue}, l \in Limits :
          api_get_decisions_json(c, l)

SpecList == InitList /\ [][NextList]_vars

\* the rows are put there by an admin's update-decisions requests; what a
\* listing returns does not depend on the decision text
NextListSb ==
    \/ \E i \in DecisionIds, c \in CustomerIds :
          api_update_decision_sb("tA", i, c, "APPROVE", "r")
    \/ \E h \in Authorizations, c \in CustomerIds \cup {NoValue}, l \in LimitsSb,
          f \in {"none", "select_fails"} :
          /\ validate_token(h) # NoToken \/ (c = NoValue /\ l = 1 /\ f = "none")
          /\ api_get_decisions_sb(h, c, l, f)

SpecListSb == InitSb /\ [][NextListSb]_vars

\* The two decision stores side by side under POST /update-decisions, which
\* calls record_decision (always on the JSON backend, without an id on the
\* Supabase backend) or update_decision_row.  Which id a record gets does
\* not depend on the decision text, so two decisions stand for all.
NextStores ==
    \/ \E c \in CustomerIds \cup {NoValue}, d \in {"APPROVE", "REJECT", NoValue} :
          api_update_decision_json(c, d, "r")
    \/ \E h \in Authorizations, i \in DecisionIds, c \in CustomerIds,
          d \in {"APPROVE", "REJECT"} :
          /\ IsAdmin(h) \/ <<i, c, d>> = <<0, "c1", "APPROVE">>
          /\ api_update_decision_sb(h, i, c, d, "r")

SpecStores == Init /\ [][NextStores]_vars

(***************************************************************************)
(* The signals of a customer summary: POST /chat of both backends over the *)
(* cards and loans a customer may hold.                                    *)
(***************************************************************************)
\* the sequences over S of length at most n
SeqsUpTo(S, n) == UNION {[1..k -> S] : k \in 0..n}

\* a card's limit and balance may be missing; a limit may be 0
CardRows == [credit_limit : {None, <<0>>, <<70>>}, current_balance : {None, <<30>>}]

\* a loan may be paid off (0) or lack the amount; the loader writes no
\* column "outstanding"
LoanRows == [outstanding_amount : {None, <<0>>, <<5>>}, outstanding : {None}]

\* an agent reply that is no decision
TextReply == [kind |-> "text", decision |-> NoValue, reason |-> NoValue]

InitSignals ==
    /\ InitState
    /\ CREW_AVAILABLE
    /\ decisions_file = ListFile(<<>>)
    /\ \E cards \in SeqsUpTo(CardRows, MaxCards), loans \in SeqsUpTo(LoanRows, MaxLoans) :
         customers = <<[customer_id |-> "c1", account_creation_date |-> OpenedAt(0),
                        credit_cards |-> cards, loans |-> loans,
                        transactions |-> <<>>]>>

NextSignals ==
    \/ \E c \in CustomerIds : api_chat_json(c, NoValue, TextReply)
    \/ \E h \in Authorizations, c \in CustomerIds, f \in {"none", "select_fails"} :
          /\ IsAdmin(h) \/ <<c, f>> = <<"c1", "none">>
          /\ api_chat_sb(h, c, NoValue, FALSE, TextReply, f, "stored")

SpecSignals == InitSignals /\ [][NextSignals]_vars

(***************************************************************************)
(* The age of an account: POST /chat of the Supabase backend over the      *)
(* values account_creation_date may hold.                                  *)
(***************************************************************************)
\* missing, text that is no ISO date, and ISO dates without and with a UTC
\* offset ("2024-01-05" and "2024-01-05T00:00:00+00:00"), opened two days,
\* two and a half days, or no time ago
CreationDates ==
    {None, <<[form |-> "unparsable", at |-> 0]>>}
    \cup {<<[form |-> f, at |-> Today - back]>> : f \in {"naive", "aware"}, back \in {0, 4, 5}}

InitAge ==
    /\ InitState
    /\ decisions_file = ListFile(<<>>)
    /\ \E acd \in CreationDates :
         customers = <<[customer_id |-> "c1", account_creation_date |-> acd,
                        credit_cards |-> <<>>, loans |-> <<>>, transactions |-> <<>>]>>

\* the age does not depend on the session or on the agent's reply
NextAge ==
    \E h \in Authorizations, c \in CustomerIds \cup {NoValue}, e \in BOOLEAN,
       f \in {"none", "select_fails"} :
       /\ validate_token(h) # NoToken \/ <<c, e, f>> = <<"c1", FALSE, "none">>
       /\ api_chat_sb(h, c, NoValue, e, TextReply, f, "stored")

SpecAge == InitAge /\ [][NextAge]_vars

(***************************************************************************)
(* Transactions: GET /customers/{customer_id}/transactions and the window  *)
(* of transactions POST /chat reads, on both backends.                     *)
(***************************************************************************)
\* GET /customers/{customer_id}/transactions (JSON backend)
api_get_transactions_json(customer_id, limit) ==
    /\ JsonFrame
    /\ UNCHANGED <<sessions, decisions_file, ids>>
    /\ resp' = Listed(Response("get_transactions", 200, "ok", customer_id, NoRow,
                               "none", 0),
                      limit, get_transactions_json(customer_id, limit))

\* GET /customers/{customer_id}/transactions (Supabase backend): any token
\* will do; a failed select leaves the handler as an error
api_get_transactions_sb(authorization, customer_id, limit, select_fault, tie) ==
    /\ SbFrame
    /\ UNCHANGED <<sessions, archive, loan_decisions, ids>>
    /\ resp' =
         IF validate_token(authorization) = NoToken
         THEN Response("get_transactions", 403, "error", customer_id, NoRow, "none", 0)
         ELSE IF select_fault # "none"
         THEN Asked(Response("get_transactions", 500, "error", customer_id, NoRow,
                             "none", 0), limit)
         ELSE Listed(Response("get_transactions", 200, "ok", customer_id, NoRow,
                              "none", 0),
                     limit, get_transactions_sb(customer_id, limit, tie))

\* transactions of c1 on an early and a late date: credits with and
\* without an amount, a credit typed in capitals, a debit above every credit
TxRows ==
    [customer_id : {"c1"}, date : {1, 9}, type : {"credit"}, amount : {None, <<20>>}]
    \cup [customer_id : {"c1"}, date : {1, 9}, type : {"CREDIT"}, amount : {<<40>>}]
    \cup [customer_id : {"c1"}, date : {1, 9}, type : {"debit"}, amount : {<<60>>}]

\* n equal debits of one date between the two
Fillers(n) ==
    [i \in 1..n |-> [customer_id |-> "c1", date |-> 5, type |-> "debit", amount |-> <<10>>]]

\* how many of them: none, one short of the chat window, the whole window
FillerCounts == {0, TxWindow - 1, TxWindow}

\* customer ids a transactions request may carry: c2 is a second customer
TxCustomerIds == CustomerIds \cup {"c2"}

InitTx ==
    /\ InitState
    /\ CREW_AVAILABLE
    /\ decisions_file = ListFile(<<>>)
    /\ \E extra \in SeqsUpTo(TxRows, MaxExtra), n \in FillerCounts :
         customers =
           <<[customer_id |-> "c1", account_creation_date |-> OpenedAt(0),
              credit_cards |-> <<>>, loans |-> <<>>,
              transactions |-> extra \o Fillers(n)],
             [customer_id |-> "c2", account_creation_date |-> OpenedAt(0),
              credit_cards |-> <<>>, loans |-> <<>>,
              transactions |-> <<[customer_id |-> "c2", date |-> 7, type |-> "credit",
                                  amount |-> <<99>>]>>]>>

\* One request on each set of transactions: none of these requests writes
\* a transaction, so a later request reads what the first one read.
FirstRequest == resp = NoResponse

NextTx ==
    \/ \E c \in CustomerIds :
          FirstRequest /\ api_chat_json(c, NoValue, TextReply)
    \/ \E h \in Authorizations, c \in CustomerIds, f \in {"none", "select_fails"},
          tie \in TieOrders :
          /\ FirstRequest
          /\ IsAdmin(h) \/ <<c, f, tie>> = <<"c1", "none", "stored">>
          /\ api_chat_sb(h, c, NoValue, FALSE, TextReply, f, tie)
    \/ \E c \in TxCustomerIds, l \in Limits :
          FirstRequest /\ api_get_transactions_json(c, l)
    \/ \E h \in Authorizations, c \in TxCustomerIds, l \in LimitsSb,
          f \in {"none", "select_fails"}, tie \in TieOrders :
          /\ FirstRequest
          /\ IsAdmin(h) \/ <<c, l, f, tie>> = <<"c1", 1, "none", "stored">>
          /\ api_get_transactions_sb(h, c, l, f, tie)

SpecTx == InitTx /\ [][NextTx]_vars

(***************************************************************************)
(* Loading customer data into the tables: load_data.py and POST /customer. *)
(* A load is a function of the tables it finds: T holds the table          *)
(* customers, the tables of db, and the number of uuids handed out.        *)
(* An account, card or loan given without its id has NoValue there.        *)
(***************************************************************************)
\* str(uuid.uuid4()) for the k-th uuid handed out
uuid_str(k) == "u" \o ToString(k)

\* the row has the payload's values in the columns named
Matches(row, columns, payload) == \A k \in columns : row[k] = payload[k]

\* select by the filter columns, then safe_update of the rows the match
\* columns select, else safe_insert: an update sets the payload's columns
\* in every matching row
Upsert(table, filters, match, payload) ==
    IF \E i \in DOMAIN table : Matches(table[i], filters, payload)
    THEN [i \in DOMAIN table |->
            IF Matches(table[i], match, payload) THEN payload ELSE table[i]]
    ELSE Append(table, payload)

Tables(rows, tables, count) == [customers |-> rows, db |-> tables, ids |-> count]

\* value or str(uuid.uuid4())
OrUuid(T, value) == IF value # NoValue THEN value ELSE uuid_str(T.ids + 1)

Drawn(T, value) == IF value # NoValue THEN T ELSE [T EXCEPT !.ids = @ + 1]

\* a variant that inserts the customer row without looking for one
upsert_customer_insert(T, customer) ==
    LET cid == OrUuid(T, customer.customer_id)
        row == [customer_id |-> cid, name |-> customer.name]
    IN [Drawn(T, customer.customer_id) EXCEPT !.customers = Append(@, row)]

\* load_data.upsert_customer: the id is the account's, or a uuid drawn here
upsert_customer(T, customer) ==
    LET cid == OrUuid(T, customer.customer_id)
        row == [customer_id |-> cid, name |-> customer.name]
        T1 == Drawn(T, customer.customer_id)
    IN [T1 EXCEPT !.customers = Upsert(@, {"customer_id"}, {"customer_id"}, row)]

RECURSIVE upsert_billing_cycles(_, _, _)
\* the loop over card.get("billing_cycles"): a cycle is looked up by
\* card_id and cycle_start, and updated by card_id
upsert_billing_cycles(table, card_id, cycles) ==
    IF cycles = <<>> THEN table
    ELSE LET bc == [card_id |-> card_id, cycle_start |-> Head(cycles).cycle_start,
                    cycle_end |-> Head(cycles).cycle_end,
                    amount_due |-> Head(cycles).amount_due]
         IN upsert_billing_cycles(
                Upsert(table, {"card_id", "cycle_start"}, {"card_id"}, bc),
                card_id, Tail(cycles))

\* load_data.upsert_credit_card, and the card loop of _upsert_full_customer
upsert_credit_card(T, customer_id, card) ==
    LET card_id == OrUuid(T, card.card_id)
        payload == [card_id |-> card_id, customer_id |-> customer_id]
        T1 == Drawn(T, card.card_id)
    IN [T1 EXCEPT
          !.db.credit_cards = Upsert(@, {"card_id"}, {"card_id"}, payload),
          !.db.billing_cycles = upsert_billing_cycles(@, card_id, card.billing_cycles)]

\* load_data.upsert_loan, and the loan loop of _upsert_full_customer
upsert_loan(T, customer_id, loan) ==
    LET loan_id == OrUuid(T, loan.loan_id)
        payload == [loan_id |-> loan_id, customer_id |-> customer_id]
        T1 == Drawn(T, loan.loan_id)
    IN [T1 EXCEPT !.db.loans = Upsert(@, {"loan_id"}, {"loan_id"}, payload)]

RECURSIVE upsert_cards_and_loans(_, _, _, _)
\* for card in credit_cards: upsert_credit_card; for loan in loans: upsert_loan
upsert_cards_and_loans(T, cid, cards, loans) ==
    IF cards # <<>>
    THEN upsert_cards_and_loans(upsert_credit_card(T, cid, Head(cards)), cid,
                                Tail(cards), loans)
    ELSE IF loans # <<>>
    THEN upsert_cards_and_loans(upsert_loan(T, cid, Head(loans)), cid, cards, Tail(loans))
    ELSE T

\* the body of the loop of load_customer_accounts: cid is the account's id
\* or a uuid drawn here, before upsert_customer draws its own
load_account(T, cust) ==
    LET cid == OrUuid(T, cust.customer_id)
    IN upsert_cards_and_loans(upsert_customer(Drawn(T, cust.customer_id), cust), cid,
                              cust.credit_cards, cust.loans)

\* agent._upsert_full_customer: one cid for the customer row, cards and loans
upsert_full_customer(T, cust_obj) ==
    LET cid == OrUuid(T, cust_obj.customer_id)
        base_payload == [customer_id |-> cid, name |-> cust_obj.name]
        T1 == [Drawn(T, cust_obj.customer_id) EXCEPT
                 !.customers = Upsert(@, {"customer_id"}, {"customer_id"},
                                      base_payload)]
    IN upsert_cards_and_loans(T1, cid, cust_obj.credit_cards, cust_obj.loans)

RECURSIVE load_customer_accounts(_, _)
\* load_data.load_customer_accounts: the accounts in the order given
load_customer_accounts(T, customer_accounts) ==
    IF customer_accounts = <<>> THEN T
    ELSE load_customer_accounts(load_account(T, Head(customer_accounts)),
                                Tail(customer_accounts))

LoadFrame ==
    UNCHANGED <<decisions_file, loan_decisions, tokens, sessions, archive,
                CREW_AVAILABLE, pc, obj, local>>

\* what a load leaves behind; its response names the customer row it upserted
Loaded(T, response) ==
    /\ T.ids <= MaxIds
    /\ customers' = T.customers
    /\ db' = T.db
    /\ ids' = T.ids
    /\ resp' = response
    /\ LoadFrame

\* the response of a load, with the credit cards the account listed
Sent(response, cards) == [response EXCEPT !.rows = cards]

\* python load_data.py on a credits_loan.json holding one account
run_load_customer_accounts(cust) ==
    Loaded(load_customer_accounts(Tables(customers, db, ids), <<cust>>),
           Sent(Response("load_customer_accounts", 0, "summary",
                         OrUuid(Drawn(Tables(customers, db, ids), cust.customer_id),
                                cust.customer_id),
                         NoRow, "none", 0),
                cust.credit_cards))

\* POST /customer with a single customer object
api_create_or_update_customer(authorization, payload, select_fault) ==
    IF ~IsAdmin(authorization)
    THEN /\ resp' = ResponseTo(authorization, "post_customer", 403, "error", payload.customer_id, NoRow,
                             "none", 0)
         /\ UNCHANGED <<customers, db, ids>>
         /\ LoadFrame
    ELSE IF select_fault # "none"
    THEN /\ resp' = Logged(ResponseTo(authorization, "post_customer", 500, "error", payload.customer_id,
                                    NoRow, "none", 0))
         /\ UNCHANGED <<customers, db, ids>>
         /\ LoadFrame
    ELSE Loaded(upsert_full_customer(Tables(customers, db, ids), payload),
                Sent(ResponseTo(authorization, "post_customer", 200, "customer",
                              OrUuid(Tables(customers, db, ids), payload.customer_id),
                              NoRow, "none", 0),
                     payload.credit_cards))

\* the cards and loans an account may list
LoadCards == {[card_id |-> "k1", billing_cycles |-> <<>>]}
LoadLoans == {[loan_id |-> "l1"]}

\* accounts of a customer, under two names, and accounts given without a
\* customer_id
LoadAccounts ==
    [customer_id : {"c1", NoValue}, name : {"n1", "n2"},
     credit_cards : {<<>>} \cup {<<k>> : k \in LoadCards},
     loans : {<<>>} \cup {<<l>> : l \in LoadLoans}]

InitLoad ==
    /\ InitState
    /\ CREW_AVAILABLE
    /\ customers = <<>>
    /\ decisions_file = ListFile(<<>>)

NextLoad ==
    \/ \E cust \in LoadAccounts : run_load_customer_accounts(cust)
    \/ \E h \in Authorizations, cust \in LoadAccounts, f \in {"none", "select_fails"} :
          /\ IsAdmin(h) \/ (cust.name = "n1" /\ cust.loans = <<>> /\ f = "none")
          /\ api_create_or_update_customer(h, cust, f)

SpecLoad == InitLoad /\ [][NextLoad]_vars

\* billing cycles of two months, each with two amounts due
Cycles == [cycle_start : {1, 2}, cycle_end : {9}, amount_due : {10, 20}]

\* two cards, each sent with one of its cycles
CycleCards == [card_id : {"k1", "k2"}, billing_cycles : {<<c>> : c \in Cycles}]

\* the account of c1 with one card
CycleAccount(card) ==
    [customer_id |-> "c1", name |-> "n1", credit_cards |-> <<card>>, loans |-> <<>>]

NextCycles ==
    \/ \E card \in CycleCards :
          /\ Len(db.billing_cycles) < MaxCycles
          /\ run_load_customer_accounts(CycleAccount(card))
    \/ \E h \in Authorizations, card \in CycleCards, f \in {"none", "select_fails"} :
          /\ Len(db.billing_cycles) < MaxCycles
          /\ IsAdmin(h) \/ (card.card_id = "k1" /\ f = "none")
          /\ api_create_or_update_customer(h, CycleAccount(card), f)

SpecCycles == InitLoad /\ [][NextCycles]_vars

\* upsert_rules: safe_insert("rules", payload)
upsert_rules(table, rules_text) ==
    Append(table, [rules_text |-> rules_text, updated_at |-> utcnow])

\* POST /rules
api_set_rules(authorization, rules_text) ==
    /\ UNCHANGED <<customers, ids>>
    /\ LoadFrame
    /\ IF ~IsAdmin(authorization)
       THEN /\ resp' = ResponseTo(authorization, "post_rules", 403, "error", NoValue,
                                  NoRow, "none", 0)
            /\ UNCHANGED db
       ELSE IF rules_text = NoValue
       THEN /\ resp' = ResponseTo(authorization, "post_rules", 400, "error", NoValue,
                                  NoRow, "none", 0)
            /\ UNCHANGED db
       ELSE /\ Len(db.rules) < MaxRules
            /\ db' = [db EXCEPT !.rules = upsert_rules(db.rules, rules_text)]
            /\ resp' = ResponseTo(authorization, "post_rules", 200, "rules", NoValue,
                                  NoRow, "ok", 0)

\* the requests of the admin, each under every Authorization header
AdminAccounts ==
    [customer_id : {"c1"}, name : {"n1", "n2"}, credit_cards : {<<>>}, loans : {<<>>}]

\* an agent that answers with a decision, and one that answers in prose
AdminReplies ==
    {[kind |-> "json", decision |-> "APPROVE", reason |-> "r"],
     [kind |-> "text", decision |-> NoValue, reason |-> NoValue]}

NextAdmin ==
    \/ \E h \in Authorizations, i \in {0, 1}, d \in {"REJECT", NoValue} :
          api_update_decision_sb(h, i, "c1", d, "r")
    \/ \E h \in Authorizations, cust \in AdminAccounts, f \in {"none", "select_fails"} :
          api_create_or_update_customer(h, cust, f)
    \/ \E h \in Authorizations, t \in {"v1", NoValue} : api_set_rules(h, t)
    \/ \E h \in Authorizations, a \in AdminReplies :
          admin_run_agent_for_customer_sb(h, "c1", a, "none")

SpecAdmin == InitLoad /\ [][NextAdmin]_vars

\* POST /update-decisions on either backend, with and without the
\* customer_id and the decision
NextUpdate ==
    \/ \E c \in {"c1", NoValue}, d \in {"APPROVE", NoValue} :
          api_update_decision_json(c, d, "r")
    \/ \E h \in Authorizations, i \in {0, 1}, c \in {"c1", NoValue},
          d \in {"APPROVE", NoValue} :
          api_update_decision_sb(h, i, c, d, "r")

SpecUpdate == Init /\ [][NextUpdate]_vars

\* (description or '').strip(): the descriptions in use are "d", " d"
\* and a missing one
Strip(description) == IF description = " d" THEN "d" ELSE description

\* load_data.make_tx_id
make_tx_id(customer_id, date, amount, description) ==
    customer_id \o "::" \o ToString(date) \o "::" \o ToString(amount) \o "::"
    \o Strip(description)

RECURSIVE insert_transactions_unchecked(_, _, _, _)
\* a variant that inserts every transaction without the select by tx_id
insert_transactions_unchecked(table, customer_id, transactions, inserted) ==
    IF transactions = <<>> THEN [table |-> table, inserted |-> inserted]
    ELSE LET t == Head(transactions)
             payload == [tx_id |-> make_tx_id(customer_id, t.date, t.amount, t.description),
                         customer_id |-> customer_id, date |-> t.date,
                         amount |-> t.amount, description |-> t.description]
         IN insert_transactions_unchecked(Append(table, payload), customer_id,
                                          Tail(transactions), inserted + 1)

RECURSIVE insert_transactions_for_customer(_, _, _, _)
\* load_data.insert_transactions_for_customer: the loop, from the table and
\* the count so far to the table and the count returned
insert_transactions_for_customer(table, customer_id, transactions, inserted) ==
    IF transactions = <<>> THEN [table |-> table, inserted |-> inserted]
    ELSE LET t == Head(transactions)
             tx_id == make_tx_id(customer_id, t.date, t.amount, t.description)
             payload == [tx_id |-> tx_id, customer_id |-> customer_id, date |-> t.date,
                         amount |-> t.amount, description |-> t.description]
         IN IF \E i \in DOMAIN table : table[i].tx_id = tx_id
            THEN insert_transactions_for_customer(table, customer_id,
                                                  Tail(transactions), inserted)
            ELSE insert_transactions_for_customer(Append(table, payload), customer_id,
                                                  Tail(transactions), inserted + 1)

\* python load_data.py on a bank_statements.json holding one statement: the
\* response holds the statement's transactions and the count returned
run_load_bank_statements(rec) ==
    LET done == insert_transactions_for_customer(db.transactions, rec.customer_id,
                                                 rec.transactions, 0)
    IN /\ db' = [db EXCEPT !.transactions = done.table]
       /\ resp' = Sent(Response("load_bank_statements", 0, "summary", rec.customer_id,
                                NoRow, "none", done.inserted),
                       rec.transactions)
       /\ UNCHANGED <<customers, ids>>
       /\ LoadFrame

\* transactions of two dates, one description given with and without a
\* leading blank
StatementTxs ==
    {[date |-> 1, amount |-> 10, description |-> "d"],
     [date |-> 1, amount |-> 10, description |-> " d"],
     [date |-> 2, amount |-> 10, description |-> "d"]}

Statements ==
    [customer_id : {"c1", "c2"}, transactions : SeqsUpTo(StatementTxs, MaxTx)]

NextStatements == \E rec \in Statements : run_load_bank_statements(rec)

SpecStatements == InitLoad /\ [][NextStatements]_vars

(***************************************************************************)
(* Properties of the evaluation and the decision table (Supabase backend). *)
(***************************************************************************)
\* C1: the decision stored for an evaluation is the mapping of its
\* rule-satisfaction count n: 11 gives APPROVE, 8..10 REVIEW, 0..7 REJECT.
C1_StoredDecisionIsMappingOfN ==
    (resp.op = "run_agent" /\ resp.write = "ok") =>
        resp.saved.decision = DecisionOf(resp.n)

\* C2: every run-agent call that returns successfully has written exactly
\* one record to the decision store.
C2_EvaluateWritesExactlyOne ==
    [][(resp'.op = "run_agent" /\ resp'.status = 200) =>
        /\ Len(loan_decisions') = Len(loan_decisions) + 1
        /\ \A i \in DOMAIN loan_decisions : loan_decisions'[i] = loan_decisions[i]
      ]_vars

RowsOf(table, customer_id) ==
    {i \in DOMAIN table : table[i].customer_id = customer_id}

C15_UpdateByIdOrInsertOne ==
    [][(resp'.op = "update_decisions" /\ resp'.status = 200) =>
        IF resp'.arg # 0
        THEN /\ Len(loan_decisions') = Len(loan_decisions)
             /\ \A i \in DOMAIN loan_decisions :
                   IF loan_decisions[i].id = resp'.arg
                   THEN /\ loan_decisions'[i] = resp'.saved
                        /\ loan_decisions'[i].id = resp'.arg
                        /\ loan_decisions'[i].created_at = loan_decisions[i].created_at
                        /\ loan_decisions'[i].customer_id = resp'.customer_id
                   ELSE loan_decisions'[i] = loan_decisions[i]
        ELSE /\ Len(loan_decisions') = Len(loan_decisions) + 1
             /\ SubSeq(loan_decisions', 1, Len(loan_decisions)) = loan_decisions
             /\ loan_decisions'[Len(loan_decisions')] = resp'.saved
             /\ resp'.saved.customer_id = resp'.customer_id
      ]_vars

\* the row under id 1 was rewritten next to a row under id 2
C15_Witness ==
    /\ resp.op = "update_decisions" /\ resp.status = 200
    /\ resp.arg = 1 /\ resp.saved.id = 1
    /\ Len(loan_decisions) = 2
    /\ loan_decisions[1] = resp.saved /\ loan_decisions[2].id = 2
    /\ loan_decisions[1].decision # loan_decisions[2].decision

\* C6: no request that called record_decision answers with success when the
\* write failed.
C6_WriteFailureSurfaced ==
    resp.write = "failed" => resp.status >= 400

\* C7: a request for a customer_id without a customer record, once past the
\* token and payload checks and with the database answering, gets 404 and
\* leaves the decision store unchanged.
C7_UnknownCustomerNotFound ==
    [][(/\ resp'.customer_id # NoValue
        /\ ~get_customer_sb(resp'.customer_id)
        /\ resp'.status \notin {400, 403, 500, 501}) =>
        /\ resp'.status = 404
        /\ loan_decisions' = loan_decisions
      ]_vars

\* C8: every record in the decision store has a decision among APPROVE,
\* REVIEW, REJECT.
C8_StoredDecisionValid ==
    \A i \in DOMAIN loan_decisions : loan_decisions[i].decision \in ValidDecisions

\* no two of the rows carry the same id
DistinctIds(rows) == \A i, j \in DOMAIN rows : i # j => rows[i].id # rows[j].id

Written(before, after) == {r \in Range(after) : r \notin Range(before)}

\* C23: the credit cards and loans load_customer_accounts upserts for an
\* account carry the customer_id of the customer row upserted for that
\* account, also when the account comes without a customer_id.  For such an
\* account the loader and upsert_customer each draw a uuid of their own.
C23_CardsAndLoansCarryCustomerId ==
    [][resp'.op = "load_customer_accounts" =>
        /\ \E r \in Range(customers') : r.customer_id = resp'.customer_id
        /\ \A c \in Written(db.credit_cards, db'.credit_cards) :
              c.customer_id = resp'.customer_id
        /\ \A l \in Written(db.loans, db'.loans) : l.customer_id = resp'.customer_id
      ]_vars

\* the rows of the table customers with that customer_id
CustomerRows(rows, customer_id) == {i \in DOMAIN rows : rows[i].customer_id = customer_id}

\* C26: after any sequence of customer upserts (load_data.upsert_customer,
\* _upsert_full_customer) the table customers holds at most one row per
\* customer_id; an upsert of an id the table holds updates that row, in its
\* place, and inserts none.
C26_OneRowPerCustomerId ==
    [][resp'.op \in {"load_customer_accounts", "post_customer"} =>
        /\ \A r \in Range(customers') :
              Cardinality(CustomerRows(customers', r.customer_id)) = 1
        /\ CustomerRows(customers, resp'.customer_id) # {} =>
              /\ Len(customers') = Len(customers)
              /\ \A i \in DOMAIN customers :
                    customers'[i].customer_id = customers[i].customer_id
      ]_vars

\* c1 was upserted again, under a new name, after a later customer came in
C26_Witness ==
    /\ resp.op \in {"load_customer_accounts", "post_customer"}
    /\ resp.status \in {0, 200}
    /\ resp.customer_id = "c1"
    /\ Len(customers) = 2
    /\ customers[1] = [customer_id |-> "c1", name |-> "n2"]

\* C24: upserting a billing cycle that exists for (card_id, cycle_start)
\* changes only that cycle; every other cycle of the card keeps its
\* cycle_start, cycle_end and amount_due.  The update is keyed by card_id
\* alone and rewrites every cycle of the card.
C24_OtherCyclesKept ==
    [][(resp'.op \in {"load_customer_accounts", "post_customer"}
          /\ resp'.status \in {0, 200}) =>
        \A k \in Range(resp'.rows) : \A c \in Range(k.billing_cycles) :
            (\E r \in Range(db.billing_cycles) :
                 r.card_id = k.card_id /\ r.cycle_start = c.cycle_start) =>
            \A i \in DOMAIN db.billing_cycles :
                (/\ db.billing_cycles[i].card_id = k.card_id
                 /\ db.billing_cycles[i].cycle_start # c.cycle_start) =>
                db'.billing_cycles[i] = db.billing_cycles[i]
      ]_vars

\* the tx_ids of a statement's transactions
TxIdsOf(customer_id, transactions) ==
    {make_tx_id(customer_id, t.date, t.amount, t.description) : t \in Range(transactions)}

\* C25: insert_transactions_for_customer is idempotent.  After any sequence
\* of loads the table transactions holds at most one row per tx_id
\* (customer_id::date::amount::description), a load of a statement whose
\* transactions are all there inserts nothing, and the count returned is
\* the number of rows added.
C25_TransactionsLoadedOnce ==
    [][resp'.op = "load_bank_statements" =>
        /\ \A i, j \in DOMAIN db'.transactions :
              db'.transactions[i].tx_id = db'.transactions[j].tx_id => i = j
        /\ \A r \in Range(db'.transactions) :
              r.tx_id = make_tx_id(r.customer_id, r.date, r.amount, r.description)
        /\ resp'.n = Len(db'.transactions) - Len(db.transactions)
        /\ SubSeq(db'.transactions, 1, Len(db.transactions)) = db.transactions
        /\ TxIdsOf(resp'.customer_id, resp'.rows)
              \subseteq {r.tx_id : r \in Range(db.transactions)} =>
              (db'.transactions = db.transactions /\ resp'.n = 0)
      ]_vars

\* a statement loaded a second time: two rows stay two rows, none is counted
C25_Witness ==
    /\ resp.op = "load_bank_statements"
    /\ Len(resp.rows) = 2
    /\ Cardinality(TxIdsOf(resp.customer_id, resp.rows)) = 2
    /\ resp.n = 0
    /\ Len(db.transactions) = 2
    /\ \A r \in Range(db.transactions) : r.customer_id = resp.customer_id

\* the header is a token create_token issued for the role admin
IssuedToAdmin(header) == header \in DOMAIN tokens /\ tokens[header].role = "admin"

AdminOps == {"update_decisions", "post_customer", "post_rules", "run_agent"}

\* C27: POST /update-decisions, POST /customer, POST /rules and run-agent
\* change state only under an admin token that create_token issued.  With
\* no token, an unknown token or a customer token they return 403 and leave
\* the decisions, the customers and the rules as they were.
C27_AdminOnly ==
    [][resp'.op \in AdminOps =>
        /\ ~IssuedToAdmin(resp'.header) =>
              /\ resp'.status = 403
              /\ loan_decisions' = loan_decisions
              /\ customers' = customers
              /\ db' = db
        /\ <<loan_decisions, customers, db>>' # <<loan_decisions, customers, db>> =>
              IssuedToAdmin(resp'.header)
      ]_vars

\* a customer's token refused where decisions, customers and rules exist
C27_Witness ==
    /\ resp.op \in AdminOps /\ resp.status = 403
    /\ resp.header = "tC"
    /\ loan_decisions # <<>> /\ customers # <<>> /\ db.rules # <<>>

\* a step of POST /update-decisions (JSON backend) whose payload lacks the
\* customer_id or the decision
LacksFieldJson ==
    \E c \in CustomerIds \cup {NoValue}, d \in DecisionInputs \cup {NoValue}, r \in Reasons :
       /\ c = NoValue \/ d = NoValue
       /\ api_update_decision_json(c, d, r)

\* the same on the Supabase backend, sent under one of the headers
LacksFieldSb(headers) ==
    \E h \in headers, i \in DecisionIds, c \in CustomerIds \cup {NoValue},
       d \in DecisionInputs \cup {NoValue}, r \in Reasons :
       /\ c = NoValue \/ d = NoValue
       /\ api_update_decision_sb(h, i, c, d, r)

\* C28 as stated: POST /update-decisions with a missing or empty
\* customer_id or decision fails with status 400 and leaves the decision
\* store unchanged.
C28_MissingFieldIs400 ==
    [][LacksFieldJson \/ LacksFieldSb(Authorizations) =>
        /\ resp'.status = 400
        /\ decisions_file' = decisions_file
        /\ loan_decisions' = loan_decisions
      ]_vars

\* C28, amended: the request fails with 400 where it passes the token
\* check (the JSON backend has none); the Supabase backend answers a
\* request without an admin token 403 before it reads the payload.  The
\* decision store is unchanged in both cases.
C28_MissingFieldIs400PastTokenCheck ==
    [][LacksFieldJson \/ LacksFieldSb(Authorizations) =>
        /\ resp'.status =
              IF LacksFieldJson \/ LacksFieldSb({h \in Authorizations : IssuedToAdmin(h)})
              THEN 400 ELSE 403
        /\ decisions_file' = decisions_file
        /\ loan_decisions' = loan_decisions
      ]_vars

\* the admin's payload without a decision refused, decisions being stored
C28_Witness ==
    /\ resp.op = "update_decisions" /\ resp.status = 400
    /\ resp.header = "tA" /\ resp.customer_id = "c1"
    /\ loan_decisions # <<>>
    /\ decisions_file.kind = "list" /\ decisions_file.rows # <<>>

\* a step of POST /sessions/{session_id}/end under one of the headers
EndRequest(headers, sid) == \E h \in headers : api_end_session(h, sid)

\* a step of POST /chat with end_session set, under one of the headers
EndingChat(headers, sid) ==
    \E h \in headers, c \in CustomerIds \cup {NoValue}, a \in AgentReplies,
       f \in {"none", "select_fails"}, tie \in TieOrders :
       api_chat_sb(h, c, sid, TRUE, a, f, tie)

\* the session left the active sessions, and the history of its id grew by
\* one entry, which holds the turns the session had and the chat's own
Moved(sid, added) ==
    /\ sessions' = [sessions EXCEPT ![sid] = <<>>]
    /\ \E turns \in added :
          archive' = [archive EXCEPT ![sid] = Append(@, sessions[sid] \o turns)]

ChatTurns == {<<"user", "assistant">>, <<"user", "system", "assistant">>}

Issued == {h \in Authorizations : h \in DOMAIN tokens}

\* C29 as stated: after api_end_session, or a chat with end_session set,
\* the session_id is not active and its turns have been appended exactly
\* once to the archive of that id; ending a session_id that is not active
\* fails with 404 and changes neither the active sessions nor the archive.
C29_EndMovesSession ==
    [][\A sid \in EndIds :
        /\ EndRequest(Authorizations, sid) /\ Active(sid) => Moved(sid, {<<>>})
        /\ EndRequest(Authorizations, sid) /\ ~Active(sid) =>
              resp'.status = 404 /\ UNCHANGED <<sessions, archive>>
        /\ sid \in SessionIds /\ EndingChat(Authorizations, sid) => Moved(sid, ChatTurns)
      ]_vars

\* C29, amended: the above holds for a request that carries a token of
\* _tokens; a request without one is answered 403 and changes neither the
\* active sessions nor the archive, so no turn is lost or archived twice.
C29_EndMovesSessionUnderToken ==
    [][\A sid \in EndIds :
        /\ EndRequest(Issued, sid) /\ Active(sid) =>
              resp'.status = 200 /\ Moved(sid, {<<>>})
        /\ EndRequest(Issued, sid) /\ ~Active(sid) =>
              resp'.status = 404 /\ UNCHANGED <<sessions, archive>>
        /\ sid \in SessionIds /\ EndingChat(Issued, sid) =>
              resp'.status = 200 /\ Moved(sid, ChatTurns)
        /\ \/ EndRequest(Authorizations \ Issued, sid)
           \/ sid \in SessionIds /\ EndingChat(Authorizations \ Issued, sid)
           => resp'.status = 403 /\ UNCHANGED <<sessions, archive>>
      ]_vars

\* a session of three turns ended by POST /sessions/s1/end
C29_Witness ==
    /\ resp.op = "end_session" /\ resp.status = 200
    /\ sessions["s1"] = <<>>
    /\ archive["s1"] = <<<<"user", "system", "assistant">>>>

\* the session kept its turns in their order and got the chat's after them
Appended(sid) ==
    /\ \E turns \in ChatTurns : sessions' = [sessions EXCEPT ![sid] = @ \o turns]
    /\ UNCHANGED archive

\* what a chat does to the session it names: it appends its turns, and
\* moves the session with them when it ends the session
Chatted(end_session) ==
    \E sid \in SessionIds : IF end_session THEN Moved(sid, ChatTurns) ELSE Appended(sid)

\* C30 as stated: every api_chat call appends to its session exactly one
\* user turn first and exactly one assistant turn last, with at most one
\* system turn between them, also when the agent raises an error; a chat
\* call that does not end the session never removes or reorders the turns
\* the session has.
C30_ChatAppendsTurns ==
    [][resp'.op = "chat" => Chatted(resp'.ends)]_vars

\* C30, amended: the above holds for every call of the JSON backend and
\* for the calls of the Supabase backend that carry a token of _tokens; a
\* call without one is answered 403 and appends no turn.
C30_ChatAppendsTurnsUnderToken ==
    [][resp'.op = "chat" =>
        /\ resp'.status \in {200, 403}
        /\ resp'.status = 200 => Chatted(resp'.ends)
        /\ resp'.status = 403 =>
              resp'.header \notin Issued /\ UNCHANGED <<sessions, archive>>
        /\ resp'.header \in Issued => resp'.status = 200
      ]_vars

\* the agent raised in the second chat of a session: the session holds the
\* first chat's turns, then the user's and the assistant's
C30_Witness ==
    /\ resp.op = "chat" /\ resp.body = "agent_error" /\ resp.header \in Issued
    /\ sessions["s1"] = <<"user", "assistant", "user", "assistant">>

(***************************************************************************)
(* Properties of the customer summary.                                     *)
(***************************************************************************)
\* the summary the last chat request built, if it built one
Built == resp.op = "chat" /\ resp.summary # <<>> /\ ~resp.summary[1].raised

\* the loans of the customer the summary is about that still owe something
LoansOwing ==
    LET loans == Flatten(EntriesOf(resp.customer_id), "loans")
    IN {i \in DOMAIN loans : /\ loans[i].outstanding_amount # None
                             /\ loans[i].outstanding_amount[1] > 0}

\* C16: active_loans_count is the number of the customer's loans whose
\* outstanding_amount is greater than 0, in every place that derives it; a
\* loan with outstanding_amount 0 or missing is not counted.  The JSON
\* backend reports len(loans) and so counts them.
C16_ActiveLoansCountOwing ==
    Built => resp.summary[1].active_loans_count = Cardinality(LoansOwing)

\* the cards of the customer the last request was about
CardsHeld == Flatten(EntriesOf(resp.customer_id), "credit_cards")

\* C17: credit_utilization_pct is null whenever the credit limits of the
\* customer's cards sum to 0 (no card, or cards whose limit is missing or 0)
\* and no division raises; otherwise it is the sum of the balances over the
\* sum of the limits, times 100 (to the hundredth the summary keeps).
C17_UtilizationNullOnZeroLimit ==
    (resp.op = "chat" /\ resp.summary # <<>>) =>
        LET summary == resp.summary[1]
            total_limit == SumOf(CardsHeld, "credit_limit")
            total_balance == SumOf(CardsHeld, "current_balance")
            off == summary.credit_utilization_pct[1] * total_limit
                   - 10000 * total_balance
        IN /\ summary.cause # "division"
           /\ ~summary.raised =>
                /\ summary.credit_utilization_pct = None <=> total_limit = 0
                /\ total_limit # 0 => (2 * off <= total_limit /\ -2 * off <= total_limit)

\* a summary of a customer whose cards carry no limit: utilization is null
C17_Witness ==
    /\ Built
    /\ CardsHeld # <<>>
    /\ SumOf(CardsHeld, "credit_limit") = 0
    /\ SumOf(CardsHeld, "current_balance") > 0
    /\ resp.summary[1].credit_utilization_pct = None

\* the transactions of the customer the last request was about
TxHeld == Flatten(EntriesOf(resp.customer_id), "transactions")

\* how often row occurs in txs
Copies(txs, row) == Cardinality({i \in DOMAIN txs : txs[i].date = row.date /\ txs[i] = row})

\* window holds the n most recent of txs (all of them when they are fewer),
\* most recent first: every transaction left out is no later than any kept
IsMostRecent(window, txs, n) ==
    /\ Len(window) = (IF Len(txs) < n THEN Len(txs) ELSE n)
    /\ \A i \in DOMAIN window : Copies(window, window[i]) <= Copies(txs, window[i])
    /\ \A i \in DOMAIN window : i > 1 => window[i - 1].date >= window[i].date
    /\ \A i \in DOMAIN txs :
          Copies(window, txs[i]) < Copies(txs, txs[i]) =>
             \A j \in DOMAIN window : txs[i].date <= window[j].date

\* the credit-type transactions of a window, whatever the case of the type
CreditsIn(window) == {i \in DOMAIN window : Lower(window[i].type) = "credit"}

\* C18: monthly_income_estimate is the largest amount over the credit-type
\* transactions among the customer's 50 most recent transactions (a credit
\* without an amount counts as 0), and null when that window holds no
\* credit transaction.
C18_IncomeIsMaxCreditInWindow ==
    Built =>
        LET window == resp.summary[1].txs
            income == resp.summary[1].monthly_income_estimate
        IN /\ IsMostRecent(window, TxHeld, TxWindow)
           /\ income = None <=> CreditsIn(window) = {}
           /\ income # None =>
                /\ \A i \in CreditsIn(window) : OrZero(window[i].amount) <= income[1]
                /\ \E i \in CreditsIn(window) : OrZero(window[i].amount) = income[1]

\* a customer whose only credit is older than the 50 most recent
\* transactions, which hold a larger debit: the estimate is null
C18_Witness ==
    /\ Built
    /\ Len(TxHeld) > TxWindow
    /\ \E i \in DOMAIN TxHeld : Lower(TxHeld[i].type) = "credit"
    /\ \E i \in DOMAIN resp.summary[1].txs : resp.summary[1].txs[i].amount = <<60>>
    /\ resp.summary[1].monthly_income_estimate = None

\* C19: get_transactions(customer_id, limit) returns only transactions of
\* that customer, at most limit of them, most recent first, and they are
\* the limit most recent ones; an unknown customer gets none.  Limit 0 on
\* the Supabase backend and a negative limit on the JSON backend return more.
C19_TransactionsMostRecentFirst ==
    (resp.op = "get_transactions" /\ resp.status = 200) =>
        /\ \A i \in DOMAIN resp.rows : resp.rows[i].customer_id = resp.customer_id
        /\ Len(resp.rows) <= resp.arg
        /\ IsMostRecent(resp.rows, TxHeld, resp.arg)
        /\ EntriesOf(resp.customer_id) = <<>> => resp.rows = <<>>

\* the account_creation_date of the customer the last request was about
CreationDateHeld == EntriesOf(resp.customer_id)[1].account_creation_date

\* C22: account_age_days is null when account_creation_date is missing or
\* cannot be parsed, and the summary is still built; otherwise it is the
\* whole number of days from the creation date to now.  A date that parses
\* with a UTC offset also gives null.
C22_AccountAgeWholeDays ==
    (/\ resp.op = "chat" /\ resp.summary # <<>>
     /\ EntriesOf(resp.customer_id) # <<>>
     /\ resp.summary[1].cause # "select") =>
        LET age == resp.summary[1].account_age_days
        IN /\ ~resp.summary[1].raised
           /\ IF CreationDateHeld = None \/ CreationDateHeld[1].form = "unparsable"
              THEN age = None
              ELSE age = <<(Today - CreationDateHeld[1].at) \div DayParts>>

(***************************************************************************)
(* Properties of GET /decisions.                                           *)
(***************************************************************************)
\* the records of a store a query for customer_id is about
Matching(store, customer_id) ==
    {store[i] : i \in {j \in DOMAIN store :
                          customer_id = NoValue \/ store[j].customer_id = customer_id}}

\* out holds the first limit of the records in wanted, most recent first
IsMostRecentFirst(out, wanted, limit) ==
    LET size == Cardinality(wanted)
        most == IF limit < 0 THEN 0 ELSE limit
    IN /\ Len(out) = IF most < size THEN most ELSE size
       /\ \A i \in DOMAIN out : out[i] \in wanted
       /\ \A i, j \in DOMAIN out : i # j => out[i] # out[j]
       /\ \A i, j \in DOMAIN out : i < j => out[i].created_at >= out[j].created_at
       /\ \A r \in wanted \ Range(out) :
             \A i \in DOMAIN out : out[i].created_at >= r.created_at

\* C11: list_decisions(customer_id, limit) returns the records of that
\* customer (of all customers when customer_id is omitted), most recent
\* first by created_at, cut to the first limit of that order.
C11_ListDecisionsMostRecentFirst ==
    (resp.op = "get_decisions" /\ resp.status = 200) =>
        IsMostRecentFirst(resp.rows, Matching(loan_decisions, resp.customer_id),
                          resp.arg)

RecordCall == ids' = ids + 1

\* list_decisions(None, limit) with a limit larger than the store
ListAll(file) == list_decisions_json(file, NoValue, Len(load_decisions(file).rows) + 1)

Occurrences(rows, row) == Cardinality({i \in DOMAIN rows : rows[i] = row})

\* C3: on a store holding a valid list, every record_decision call that
\* returns makes list_decisions (no customer_id, limit above the store size)
\* exactly one record longer; the new record appears exactly once and every
\* earlier record as often as before.  N calls in sequence add exactly N.
C3_AppendMonotonic ==
    [][(RecordCall /\ decisions_file.kind = "list" /\ resp'.write = "ok") =>
        LET before == ListAll(decisions_file)
            after == ListAll(decisions_file')
        IN /\ Len(after) = Len(before) + 1
           /\ Cardinality({i \in DOMAIN after : after[i].id = ids'}) = 1
           /\ \A r \in Range(before) : Occurrences(after, r) = Occurrences(before, r)
      ]_vars

\* two calls in sequence on a valid list: both records are listed
C3_Witness ==
    /\ resp.write = "ok" /\ resp.found = "list"
    /\ Len(ListAll(decisions_file)) = 2

\* C9: record_decision called on malformed content (unparseable, or parseable
\* but not a list) succeeds whenever the medium takes the write, and the store
\* then is a valid list that contains the new record.
C9_MalformedStoreRecovers ==
    [][(RecordCall /\ decisions_file.kind # "list" /\ resp'.fault = "none") =>
        /\ resp'.write = "ok"
        /\ decisions_file'.kind = "list"
        /\ \E i \in DOMAIN decisions_file'.rows : decisions_file'.rows[i].id = ids'
      ]_vars

\* a call found unparseable or non-list content and its record is now stored
C9_Witness ==
    /\ resp.found \in {"object", "garbage", "truncated"}
    /\ resp.write = "ok"
    /\ decisions_file.kind = "list"
    /\ \E i \in DOMAIN decisions_file.rows : decisions_file.rows[i].id = ids

\* C10: a write that fails part-way leaves the records stored before it
\* intact and readable.
C10_PartialWriteKeepsRecords ==
    [][(RecordCall /\ decisions_file.kind = "list" /\ decisions_file.rows # <<>>
          /\ resp'.fault = "dump_fails") =>
        /\ decisions_file'.kind = "list"
        /\ decisions_file'.rows = decisions_file.rows
      ]_vars

\* C14: record_decision on a store holding a valid list adds one record and
\* changes none: the records stored before the call are all still there,
\* field for field and in the same order, ahead of the new one.
C14_AppendKeepsExisting ==
    [][(RecordCall /\ decisions_file.kind = "list" /\ resp'.write = "ok") =>
        /\ decisions_file'.kind = "list"
        /\ Len(decisions_file'.rows) = Len(decisions_file.rows) + 1
        /\ SubSeq(decisions_file'.rows, 1, Len(decisions_file.rows)) = decisions_file.rows
        /\ decisions_file'.rows[Len(decisions_file'.rows)].id = ids'
      ]_vars

\* a second record was appended behind the first, a different decision
C14_Witness ==
    /\ resp.write = "ok" /\ resp.found = "list" /\ resp.saved.id = 2
    /\ decisions_file.kind = "list" /\ Len(decisions_file.rows) = 2
    /\ decisions_file.rows[1].id = 1 /\ decisions_file.rows[2].id = 2
    /\ decisions_file.rows[1].decision # decisions_file.rows[2].decision

\* C21: a request that finds the stored decision records unreadable treats
\* the store as empty and leaves a warning: it logs, or its response is
\* something other than a plain success.  No handler warns: the unreadable
\* content is replaced and the request answers 200.
C21_CorruptStoreWarned ==
    resp.found \in {"garbage", "truncated"} => (resp.logged \/ resp.status # 200)

(***************************************************************************)
(* JSON backend, two requests served at once.  The handlers are plain      *)
(* functions, run by the server's worker threads.  Each thread is inside   *)
(* one record_decision call; _file_lock is held inside _read_json_file and *)
(* inside _write_json_file, and by nobody between the two.                 *)
(***************************************************************************)
\* _file_lock is held by the thread that is inside a with block
LockHeld == \E t \in Threads : pc[t] \in {"reading", "writing"}

ConcFrame == UNCHANGED <<loan_decisions, customers, db, tokens, sessions, archive, CREW_AVAILABLE, resp>>

\* record_decision: builds the record, then calls _append_decision
t_record_decision(t, customer_id, decision, reason) ==
    /\ pc[t] = "idle"
    /\ obj' = [obj EXCEPT ![t] = DecisionRow(uuid4, customer_id, decision, reason, utcnow)]
    /\ ids' = ids + 1
    /\ pc' = [pc EXCEPT ![t] = "load"]
    /\ UNCHANGED <<decisions_file, local>>
    /\ ConcFrame

\* _read_json_file: with _file_lock
t_read_acquire(t) ==
    /\ pc[t] = "load"
    /\ ~LockHeld
    /\ pc' = [pc EXCEPT ![t] = "reading"]
    /\ UNCHANGED <<decisions_file, ids, obj, local>>
    /\ ConcFrame

\* json.load, the lock released; then decisions.append(decision_obj)
t_load_decisions(t) ==
    /\ pc[t] = "reading"
    /\ local' = [local EXCEPT ![t] = Append(load_decisions(decisions_file).rows, obj[t])]
    /\ pc' = [pc EXCEPT ![t] = "store"]
    /\ UNCHANGED <<decisions_file, ids, obj>>
    /\ ConcFrame

\* _write_json_file: with _file_lock
t_write_acquire(t) ==
    /\ pc[t] = "store"
    /\ ~LockHeld
    /\ pc' = [pc EXCEPT ![t] = "writing"]
    /\ UNCHANGED <<decisions_file, ids, obj, local>>
    /\ ConcFrame

\* open(path, "w"), json.dump, the lock released; record_decision returns
t_write_json_file(t) ==
    /\ pc[t] = "writing"
    /\ decisions_file' = write_json_file(decisions_file, local[t], "none")
    /\ pc' = [pc EXCEPT ![t] = "done"]
    /\ UNCHANGED <<ids, obj, local>>
    /\ ConcFrame

NextConc ==
    \/ \E t \in Threads, c \in CustomerIds, d \in DecisionInputs, r \in Reasons :
          t_record_decision(t, c, d, r)
    \/ \E t \in Threads : t_read_acquire(t)
    \/ \E t \in Threads : t_load_decisions(t)
    \/ \E t \in Threads : t_write_acquire(t)
    \/ \E t \in Threads : t_write_json_file(t)

SpecConc == Init /\ [][NextConc]_vars

\* C4: once two concurrent record_decision calls have both returned, the
\* store holds both new records, whatever the interleaving.
C4_NoLostUpdate ==
    (\A t \in Threads : pc[t] = "done") =>
        \A t \in Threads : obj[t] \in Range(load_decisions(decisions_file).rows)
====
